---- MODULE Spec2Model ----
(***************************************************************************)
(* Model of src/streamlit.py: a Streamlit script that loads a CSV of       *)
(* national research-publication metrics once (st.cache_data), reads three *)
(* sidebar widgets, filters the table and runs a linear sequence of        *)
(* aggregations whose results it prints.  The host framework re-executes   *)
(* the whole script from the top each time a widget changes.               *)
(*                                                                         *)
(* Numbers.  The script works on floats; the model works on integers in    *)
(* fixed units: CNCI and Collab-CNCI in tenths, percentages in tenths of a *)
(* percent.  A quotient (a mean, a share) is kept exact as a pair [n, d];  *)
(* a pair with d = 0 is what numpy yields for a division by zero: n = 0 is *)
(* NaN, n # 0 is +/-inf.  Digit rounding of the printed text (":.1f") is   *)
(* not modelled: a printed number is the exact quotient.                   *)
(*                                                                         *)
(* Countries are numbered 1..n in the alphabetical order of their names,   *)
(* which is the order of sorted(df["Name"].unique()) and of groupby keys.  *)
(***************************************************************************)
EXTENDS Integers, Sequences, FiniteSets, TLC

\* ------------------------------------------------------------------ bounds
\* Small data files: at most SmallCountries countries and SmallYears years,
\* nine years apart; Profiles different value patterns.
SmallCountries == 2
SmallYears == 3
Profiles == 2
\* Wide data files: WideCountries countries, WideYears years two years apart.
WideCountries == 16
WideYears == 12
\* The user picks "All Countries" or one of the first PickCountries entries.
PickCountries == 2

\* -------------------------------------------------------- program constants
AllCountries == 0       \* the "All Countries" entry of the selectbox
CnciSliderMax == 20     \* st.sidebar.slider("Minimum CNCI", 0.0, 2.0, ...)
ExcellenceCut == 20     \* "% Documents in Top 1%" > 2
MinRecords == 10        \* consistency["Records"] >= 10
TopN == 10              \* nlargest(10, ...), consistency.head(10)
ExcellenceN == 15       \* sort_values("Avg_Top1", ascending=False).head(15)
EarlyYear == 2007       \* yearly_trends["year"] <= 2007
RecentYear == 2021      \* yearly_trends["year"] >= 2021
FirstYear == 2003       \* first year of data/publications.csv
WorldAverage == 10      \* "Category Normalized Citation Impact" > 1.0

\* ------------------------------------------------------------- quotients
Rat(n, d) == [n |-> n, d |-> d]
Unset == Rat(0, -1)                      \* a script variable not yet assigned
Zero == Rat(0, 1)
IsNaN(q) == q.d = 0 /\ q.n = 0
IsNumber(q) == q.d > 0
\* numpy division of two numbers: never raises, yields nan or inf on d = 0
NpDiv(a, b) == Rat(a, b)
Less(a, b) == IsNumber(a) /\ IsNumber(b) /\ a.n * b.d < b.n * a.d
GreaterThanZero(q) == q.d >= 0 /\ q.n > 0
LessThanZero(q) == q.d >= 0 /\ q.n < 0

Abs(x) == IF x < 0 THEN -x ELSE x

RECURSIVE Gcd(_, _)
Gcd(a, b) == IF b = 0 THEN a ELSE Gcd(b, a % b)

\* the same quotient in lowest terms (nan and inf are left as they are)
Reduced(q) ==
  IF q.d <= 0 THEN q
  ELSE LET g == Gcd(Abs(q.n), q.d) IN Rat(q.n \div g, q.d \div g)

\* float arithmetic on numbers, nan and +inf: nan if an operand is nan,
\* inf - inf and inf / inf are nan, a number divided by 0 is inf
Plus(a, b) ==
  IF IsNaN(a) \/ IsNaN(b) THEN Rat(0, 0)
  ELSE IF a.d = 0 \/ b.d = 0
    THEN (IF a.d = 0 /\ b.d = 0 /\ a.n * b.n < 0 THEN Rat(0, 0)
          ELSE IF a.d = 0 THEN a ELSE b)
  ELSE Reduced(Rat(a.n * b.d + b.n * a.d, a.d * b.d))
Minus(a, b) == Plus(a, Rat(-b.n, b.d))
Over(a, b) ==
  IF IsNaN(a) \/ IsNaN(b) \/ (a.d = 0 /\ b.d = 0) THEN Rat(0, 0)
  ELSE IF b.d = 0 THEN Zero
  ELSE IF a.d = 0 THEN (IF b.n < 0 THEN Rat(-a.n, 0) ELSE a)
  ELSE IF b.n < 0 THEN Reduced(Rat(-a.n * b.d, a.d * (-b.n)))
  ELSE IF b.n = 0 THEN Rat(a.n, 0)
  ELSE Reduced(Rat(a.n * b.d, a.d * b.n))
Times100(q) == IF q.d = 0 THEN q ELSE Reduced(Rat(100 * q.n, q.d))

RECURSIVE SumQ(_, _, _)
\* rows[1][col] + ... + rows[hi][col] of a column of quotients
SumQ(rows, col, hi) ==
  IF hi = 0 THEN Zero ELSE Plus(SumQ(rows, col, hi - 1), rows[hi][col])

\* Series.mean() of a column of quotients
MeanQ(rows, col) ==
  IF rows = <<>> THEN Rat(0, 0)
  ELSE Over(SumQ(rows, col, Len(rows)), Rat(Len(rows), 1))

\* ------------------------------------------------------- series reductions
RECURSIVE SumRange(_, _, _, _)
\* rows[lo][col] + ... + rows[hi][col], by halves
SumRange(rows, col, lo, hi) ==
  IF lo > hi THEN 0
  ELSE IF lo = hi THEN rows[lo][col]
  ELSE LET mid == (lo + hi) \div 2
       IN  SumRange(rows, col, lo, mid) + SumRange(rows, col, mid + 1, hi)

\* Series.sum() of column col
SumOf(rows, col) == SumRange(rows, col, 1, Len(rows))

\* sum of the squares of column col
SumSq(rows, col) ==
  SumRange([i \in 1..Len(rows) |-> [sq |-> rows[i][col] * rows[i][col]]],
           "sq", 1, Len(rows))

\* Series.mean(): NaN for an empty series
MeanOf(rows, col) == Rat(SumOf(rows, col), Len(rows))

\* Series.std() (sample, ddof = 1), kept as its square so that it stays
\* exact; the square root is monotone, so order and equality are those of
\* the deviation.  NaN for a single row.
StdOf(rows, col) ==
  LET n == Len(rows)
  IN  Rat(n * SumSq(rows, col) - SumOf(rows, col) * SumOf(rows, col),
          n * (n - 1))

\* Series.max(): NaN for an empty series
MaxOf(rows, col) ==
  IF rows = <<>> THEN Rat(0, 0)
  ELSE Rat(CHOOSE x \in {rows[i][col] : i \in 1..Len(rows)} :
             \A i \in 1..Len(rows) : rows[i][col] <= x, 1)

\* (mask).sum(): the number of TRUE in a boolean series
CountTrue(mask) == Len(SelectSeq(mask, LAMBDA b : b))

ColumnSet(rows, col) == {rows[i][col] : i \in 1..Len(rows)}
\* Series.nunique()
NUnique(rows, col) == Cardinality(ColumnSet(rows, col))

Min(S) == CHOOSE x \in S : \A y \in S : x <= y
Max(S) == CHOOSE x \in S : \A y \in S : x >= y

RECURSIVE SortedSeq(_)
\* the elements of a set of integers in ascending order
SortedSeq(S) ==
  IF S = {} THEN <<>> ELSE <<Min(S)>> \o SortedSeq(S \ {Min(S)})

\* ------------------------------------------------------------ data files
CsvColumns ==
  {"Name", "year", "docs", "cited", "cnci", "collab", "top1", "top10"}

\* One row of data/publications.csv.  docs = "Web of Science Documents",
\* cited = "Times Cited", cnci = "Category Normalized Citation Impact",
\* collab = "Collab-CNCI", top1 / top10 = "% Documents in Top 1% / 10%".
Row(c, y, p) ==
  LET k == (y - FirstYear) \div 2
  IN  [Name   |-> c,
       year   |-> y,
       docs   |-> (c + k * p) % 4,
       cited  |-> ((c + k * p) % 4) * (1 + ((c * p + k) % 3)),
       cnci   |-> 8 + ((c * p + k * (1 + (c % 3))) % 6),
       collab |-> 8 + ((c + k * p + p) % 6),
       top1   |-> 12 + ((c * 3 + k * p) % 12),
       top10  |-> 90 + ((c + k * 2 * p) % 30)]

\* the years of a file: ny years, stride apart, from FirstYear
YearsOfFile(ny, stride) == {FirstYear + stride * (k - 1) : k \in 1..ny}

\* country c misses the last (c - 1) % 4 years of the file
HasRow(c, y, ny, stride) == y <= FirstYear + stride * (ny - 1 - ((c - 1) % 4))

RECURSIVE CountryMajor(_, _, _, _, _)
CountryMajor(c, nc, ny, stride, p) ==
  IF c > nc THEN <<>>
  ELSE LET ys == SortedSeq({y \in YearsOfFile(ny, stride) :
                              HasRow(c, y, ny, stride)})
       IN  [i \in 1..Len(ys) |-> Row(c, ys[i], p)]
           \o CountryMajor(c + 1, nc, ny, stride, p)

RECURSIVE YearMajor(_, _, _, _, _)
YearMajor(k, nc, ny, stride, p) ==
  IF k > ny THEN <<>>
  ELSE LET y == FirstYear + stride * (k - 1)
           cs == SortedSeq({c \in 1..nc : HasRow(c, y, ny, stride)})
       IN  \* within a year the countries come in descending order
           [i \in 1..Len(cs) |-> Row(cs[Len(cs) + 1 - i], y, p)]
           \o YearMajor(k + 1, nc, ny, stride, p)

\* The bounded family of data files the model loads.
SmallFiles ==
  {CountryMajor(1, nc, ny, 9, p) :
     nc \in 1..SmallCountries, ny \in 1..SmallYears, p \in 1..Profiles}
  \cup {YearMajor(1, nc, ny, 9, p) :
          nc \in 1..SmallCountries, ny \in 1..SmallYears, p \in 1..Profiles}
WideFiles ==
  {CountryMajor(1, WideCountries, WideYears, 2, 1),
   YearMajor(1, WideCountries - 1, WideYears - 1, 2, 2)}

\* ------------------------------------------------------------------ state
VARIABLES
  csvExists,           \* data/publications.csv is present and readable
  csv,                 \* its rows
  cache,               \* the st.cache_data entry of load_data (<<>>: no entry)
  csvReads,            \* how many times pd.read_csv has returned the table
  widgets,             \* session values of the three sidebar widgets
  pc,                  \* position of the running script
  exc,                 \* exception that stopped the run ("none" if none)
  rendered,            \* sections whose output has been sent to the page
  df,                  \* line 28
  selected_country,    \* line 34
  year_range,          \* line 36
  cnci_min,            \* line 43
  filtered_df,         \* lines 46-60, 571-574
  collab_helpful_pct,  \* line 112
  avg_collab_adv,      \* line 113
  country_metrics,     \* line 150
  yearly_metrics,      \* line 212
  high_excellence,     \* line 303 (the frame), line 845 (rebound to a count)
  excellence_share,    \* line 304
  high_excellence_pct, \* the percentage printed at lines 311 and 849
  country_data,        \* lines 340, 960
  summary,             \* the Summary Statistics printed at lines 347-355
  general,             \* the General Findings of lines 422-448
  country_agg,         \* line 472
  top_citations,       \* line 503
  top_quality,         \* line 514
  collab_effect,       \* line 580
  helps,               \* lines 583, 586
  hurts,               \* lines 582, 587
  success_pct,         \* line 598
  collab_by_country,   \* line 615
  insight2,            \* the numbers printed at lines 642-643
  yearly_trends,       \* line 663
  output_change,       \* lines 755, 767
  quality_change,      \* lines 762, 768
  insight3,            \* the words printed at lines 773-775
  excellence,          \* line 795
  high_excellence_n,   \* line 845: high_excellence rebound to a count
  metrics4,            \* the st.metric values of lines 831-850
  insight4,            \* the values printed at lines 855-858
  consistency,         \* lines 877-887
  consistent_top,      \* line 935
  most_consistent,     \* the country printed at line 943
  dive                 \* the second deep dive, lines 955-1077

loaderVars == <<csvExists, csv, cache, csvReads>>
inputVars == <<selected_country, year_range, cnci_min>>
storyVars == <<collab_helpful_pct, avg_collab_adv, country_metrics,
               yearly_metrics, excellence_share>>
excelVars == <<high_excellence, high_excellence_pct>>
diveVars == <<country_data, summary>>
ch1Vars == <<country_agg, top_citations, top_quality>>
ch2Vars == <<collab_effect, helps, hurts, success_pct, collab_by_country,
             insight2>>
ch3Vars == <<yearly_trends, output_change, quality_change, insight3>>
ch4Vars == <<excellence, high_excellence_n, metrics4, insight4>>
ch5Vars == <<consistency, consistent_top, most_consistent>>
laterVars == <<ch2Vars, ch3Vars, ch4Vars, ch5Vars, dive>>
vars == <<csvExists, csv, cache, csvReads, widgets, pc, exc, rendered, df,
          selected_country, year_range, cnci_min, filtered_df,
          collab_helpful_pct, avg_collab_adv, country_metrics, yearly_metrics,
          high_excellence, excellence_share, high_excellence_pct,
          country_data, summary, general, country_agg, top_citations,
          top_quality, collab_effect, helps, hurts, success_pct,
          collab_by_country, insight2, yearly_trends, output_change,
          quality_change, insight3, excellence, high_excellence_n, metrics4,
          insight4, consistency, consistent_top, most_consistent, dive>>

\* minimum-CNCI positions the user moves the slider to (of 0.0 .. 2.0)
CnciStops == {0, 10, 12, CnciSliderMax}

NoWidgets == [touched |-> FALSE, selected_country |-> AllCountries,
              year_range |-> <<0, 0>>, cnci_min |-> 0]
NoSummary == [shown |-> FALSE, total_publications |-> 0, total_citations |-> 0,
              avg_cnci |-> Unset, top1 |-> Unset, years_tracked |-> 0]
NoGeneral == [shown |-> "none", total_records |-> 0, unique_countries |-> 0,
              total_publications |-> 0, total_citations |-> 0,
              avg_citations_per_doc |-> Unset, avg_cnci |-> Unset,
              above_avg_pct |-> Unset]

NoInsight2 == [positive_pct |-> Unset, avg_impact |-> Unset]
NoInsight3 == [output_word |-> "", quality_word |-> "", finding_word |-> ""]
NoMetrics4 == [avg_top1 |-> Unset, max_top1 |-> Unset, avg_top10 |-> Unset,
               max_top10 |-> Unset, high_excellence_pct |-> Unset]
NoInsight4 == [leaders |-> <<>>, high_excellence_pct |-> Unset,
               top |-> Unset, average |-> Unset, multiplier |-> Unset]
NoDive == [shown |-> FALSE, total_publications |-> 0, total_citations |-> 0,
           avg_cnci |-> Unset, years_tracked |-> 0, strengths |-> {},
           improvements |-> {}]
NotAvailable == -1      \* the text "N/A" where a country is printed
NotYet == -2            \* no country printed yet

InitWith(files) ==
  /\ \/ csvExists = FALSE /\ csv = <<>>
     \/ csvExists = TRUE /\ csv \in files
  /\ cache = <<>>
  /\ csvReads = 0
  /\ widgets = NoWidgets
  /\ pc = "load"
  /\ exc = "none"
  /\ rendered = {}
  /\ df = <<>>
  /\ selected_country = AllCountries
  /\ year_range = <<0, 0>>
  /\ cnci_min = 0
  /\ filtered_df = <<>>
  /\ collab_helpful_pct = Unset
  /\ avg_collab_adv = Unset
  /\ country_metrics = <<>>
  /\ yearly_metrics = <<>>
  /\ high_excellence = <<>>
  /\ excellence_share = Unset
  /\ high_excellence_pct = Unset
  /\ country_data = <<>>
  /\ summary = NoSummary
  /\ general = NoGeneral
  /\ country_agg = <<>>
  /\ top_citations = <<>>
  /\ top_quality = <<>>
  /\ collab_effect = <<>>
  /\ helps = 0
  /\ hurts = 0
  /\ success_pct = Unset
  /\ collab_by_country = <<>>
  /\ insight2 = NoInsight2
  /\ yearly_trends = <<>>
  /\ output_change = Unset
  /\ quality_change = Unset
  /\ insight3 = NoInsight3
  /\ excellence = <<>>
  /\ high_excellence_n = 0
  /\ metrics4 = NoMetrics4
  /\ insight4 = NoInsight4
  /\ consistency = <<>>
  /\ consistent_top = <<>>
  /\ most_consistent = NotYet
  /\ dive = NoDive

\* a new execution of the script: no script variable is assigned yet
FreshRun ==
  /\ pc' = "load"
  /\ exc' = "none"
  /\ rendered' = {}
  /\ df' = <<>>
  /\ selected_country' = AllCountries
  /\ year_range' = <<0, 0>>
  /\ cnci_min' = 0
  /\ filtered_df' = <<>>
  /\ collab_helpful_pct' = Unset
  /\ avg_collab_adv' = Unset
  /\ country_metrics' = <<>>
  /\ yearly_metrics' = <<>>
  /\ high_excellence' = <<>>
  /\ excellence_share' = Unset
  /\ high_excellence_pct' = Unset
  /\ country_data' = <<>>
  /\ summary' = NoSummary
  /\ general' = NoGeneral
  /\ country_agg' = <<>>
  /\ top_citations' = <<>>
  /\ top_quality' = <<>>
  /\ collab_effect' = <<>>
  /\ helps' = 0
  /\ hurts' = 0
  /\ success_pct' = Unset
  /\ collab_by_country' = <<>>
  /\ insight2' = NoInsight2
  /\ yearly_trends' = <<>>
  /\ output_change' = Unset
  /\ quality_change' = Unset
  /\ insight3' = NoInsight3
  /\ excellence' = <<>>
  /\ high_excellence_n' = 0
  /\ metrics4' = NoMetrics4
  /\ insight4' = NoInsight4
  /\ consistency' = <<>>
  /\ consistent_top' = <<>>
  /\ most_consistent' = NotYet
  /\ dive' = NoDive

\* an uncaught exception: Streamlit prints it and stops the script
Raise(e) == pc' = "error" /\ exc' = e

\* ----------------------------------------------------------------- loader
\* LoadData without the cache decorator: every run reads the file
LoadDataUncached ==
  /\ pc = "load"
  /\ IF csvExists
       THEN /\ cache' = csv
            /\ csvReads' = csvReads + 1
            /\ df' = csv
            /\ pc' = "widgets"
            /\ UNCHANGED exc
       ELSE /\ Raise("FileNotFoundError")
            /\ UNCHANGED <<cache, csvReads, df>>
  /\ UNCHANGED <<csvExists, csv, widgets, rendered, inputVars, filtered_df,
                 storyVars, excelVars, diveVars, general, ch1Vars, laterVars>>

\* LoadData with the failure of pd.read_csv swallowed: the run goes on
\* without a table
LoadDataSwallowed ==
  /\ pc = "load"
  /\ IF cache # <<>>
       THEN /\ df' = cache
            /\ UNCHANGED <<cache, csvReads>>
       ELSE IF csvExists
         THEN /\ cache' = csv
              /\ csvReads' = csvReads + 1
              /\ df' = csv
         ELSE UNCHANGED <<cache, csvReads, df>>
  /\ pc' = "widgets"
  /\ UNCHANGED <<csvExists, csv, widgets, exc, rendered, inputVars,
                 filtered_df, storyVars, excelVars, diveVars, general,
                 ch1Vars, laterVars>>

\* df = load_data(): the decorated function runs pd.read_csv only when the
\* cache has no entry; an exception is not cached.
LoadData ==
  /\ pc = "load"
  /\ IF cache # <<>>
       THEN /\ df' = cache
            /\ pc' = "widgets"
            /\ UNCHANGED <<cache, csvReads, exc>>
       ELSE IF csvExists
         THEN /\ cache' = csv
              /\ csvReads' = csvReads + 1
              /\ df' = csv
              /\ pc' = "widgets"
              /\ UNCHANGED exc
         ELSE /\ Raise("FileNotFoundError")
              /\ UNCHANGED <<cache, csvReads, df>>
  /\ UNCHANGED <<csvExists, csv, widgets, rendered, inputVars, filtered_df,
                 storyVars, excelVars, diveVars, general, ch1Vars, laterVars>>

\* ---------------------------------------------------------------- widgets
\* countries[1:] of line 33
CountriesOf(d) == ColumnSet(d, "Name")
YearMin(d) == Min(ColumnSet(d, "year"))
YearMax(d) == Max(ColumnSet(d, "year"))

\* Lines 33-43: each widget returns its session value, or its default when
\* the session has none yet, and keeps what it returned in the session.
ReadWidgets ==
  /\ pc = "widgets"
  /\ selected_country' = widgets.selected_country
  /\ year_range' = IF widgets.touched THEN widgets.year_range
                   ELSE <<YearMin(df), YearMax(df)>>
  /\ cnci_min' = widgets.cnci_min
  /\ widgets' = [touched |-> TRUE, selected_country |-> selected_country',
                 year_range |-> year_range', cnci_min |-> cnci_min']
  /\ pc' = "filter"
  /\ UNCHANGED <<loaderVars, exc, rendered, df, filtered_df,
                 storyVars, excelVars, diveVars, general, ch1Vars, laterVars>>

\* ----------------------------------------------------------------- filter
\* Collab_Advantage = Collab-CNCI - CNCI, as a new column (lines 58, 571)
AddCollabAdvantage(rows) ==
  [i \in 1..Len(rows) |->
     [k \in DOMAIN rows[i] \cup {"Collab_Advantage"} |->
        IF k = "Collab_Advantage" THEN rows[i].collab - rows[i].cnci
        ELSE rows[i][k]]]

\* AddCollabHelps with ">= 0" for "> 0"
AddCollabHelpsNonNegative(rows) ==
  [i \in 1..Len(rows) |->
     [k \in DOMAIN rows[i] \cup {"Collab_Helps"} |->
        IF k = "Collab_Helps" THEN rows[i].Collab_Advantage >= 0
        ELSE rows[i][k]]]

\* Collab_Helps = Collab_Advantage > 0, as a new column (line 574)
AddCollabHelps(rows) ==
  [i \in 1..Len(rows) |->
     [k \in DOMAIN rows[i] \cup {"Collab_Helps"} |->
        IF k = "Collab_Helps" THEN rows[i].Collab_Advantage > 0
        ELSE rows[i][k]]]

\* OfCountry with the comparison inverted
OfCountryOthers(rows, country) ==
  SelectSeq(rows, LAMBDA r : r.Name # country)

\* df[name == country]
OfCountry(rows, country) == SelectSeq(rows, LAMBDA r : r.Name = country)

\* FilterRows with the upper year bound exclusive
FilterRowsYearExclusive(d, yr, m, country) ==
  LET masked == SelectSeq(d, LAMBDA r : /\ r.year >= yr[1]
                                        /\ r.year < yr[2]
                                        /\ r.cnci >= m)
  IN  IF country # AllCountries THEN OfCountry(masked, country) ELSE masked

\* FilterRows with a slice that loses the last matching row
FilterRowsDropLast(d, yr, m, country) ==
  LET masked == SelectSeq(d, LAMBDA r : /\ r.year >= yr[1]
                                        /\ r.year <= yr[2]
                                        /\ r.cnci >= m)
      picked == IF country # AllCountries THEN OfCountry(masked, country)
                ELSE masked
  IN  SubSeq(picked, 1, Len(picked) - 1)

\* lines 46-55: the boolean mask, then the country equality
FilterRows(d, yr, m, country) ==
  LET masked == SelectSeq(d, LAMBDA r : /\ r.year >= yr[1]
                                        /\ r.year <= yr[2]
                                        /\ r.cnci >= m)
  IN  IF country # AllCountries THEN OfCountry(masked, country) ELSE masked

\* Filter with the derived column written into df itself and filtered_df
\* taken from it
FilterInPlace ==
  /\ pc = "filter"
  /\ df' = AddCollabAdvantage(df)
  /\ filtered_df' = FilterRows(df', year_range, cnci_min, selected_country)
  /\ pc' = "section1"
  /\ UNCHANGED <<loaderVars, widgets, exc, rendered, inputVars,
                 storyVars, excelVars, diveVars, general, ch1Vars, laterVars>>

\* lines 46-60
Filter ==
  /\ pc = "filter"
  /\ filtered_df' = AddCollabAdvantage(
                      FilterRows(df, year_range, cnci_min, selected_country))
  /\ pc' = "section1"
  /\ UNCHANGED <<loaderVars, widgets, exc, rendered, df, inputVars,
                 storyVars, excelVars, diveVars, general, ch1Vars, laterVars>>

\* ------------------------------------------------------------- group-by
\* GroupKeys without the grouping: one key per row
GroupKeysPerRow(rows, col) == [i \in 1..Len(rows) |-> rows[i][col]]

\* groupby(col): one group per distinct key, in ascending key order
GroupKeys(rows, col) == SortedSeq(ColumnSet(rows, col))
\* Group that keeps one row of each group
GroupFirstRow(rows, col, key) ==
  SubSeq(SelectSeq(rows, LAMBDA r : r[col] = key), 1, 1)

Group(rows, col, key) == SelectSeq(rows, LAMBDA r : r[col] = key)

\* the NamedAgg table of lines 150-161 (by "Name") and 212-223 (by "year")
Metrics(rows, col) ==
  LET keys == GroupKeys(rows, col)
  IN  [i \in 1..Len(keys) |->
         LET g == Group(rows, col, keys[i])
         IN  [key |-> keys[i],
              total_papers |-> SumOf(g, "docs"),
              total_citations |-> SumOf(g, "cited"),
              avg_cnci |-> MeanOf(g, "cnci"),
              avg_top10 |-> MeanOf(g, "top10")]]

\* CountryAgg with Years_Tracked as the length of the period covered
CountryAggPeriod(rows) ==
  LET keys == GroupKeys(rows, "Name")
  IN  [i \in 1..Len(keys) |->
         LET g == Group(rows, "Name", keys[i])
         IN  [Country |-> keys[i],
              Total_Docs |-> SumOf(g, "docs"),
              Total_Citations |-> SumOf(g, "cited"),
              Avg_CNCI |-> MeanOf(g, "cnci"),
              Avg_Top1 |-> MeanOf(g, "top1"),
              Avg_Top10 |-> MeanOf(g, "top10"),
              Avg_Collab_CNCI |-> MeanOf(g, "collab"),
              Years_Tracked |-> YearMax(g) - YearMin(g) + 1]]

\* lines 472-497
CountryAgg(rows) ==
  LET keys == GroupKeys(rows, "Name")
  IN  [i \in 1..Len(keys) |->
         LET g == Group(rows, "Name", keys[i])
         IN  [Country |-> keys[i],
              Total_Docs |-> SumOf(g, "docs"),
              Total_Citations |-> SumOf(g, "cited"),
              Avg_CNCI |-> MeanOf(g, "cnci"),
              Avg_Top1 |-> MeanOf(g, "top1"),
              Avg_Top10 |-> MeanOf(g, "top10"),
              Avg_Collab_CNCI |-> MeanOf(g, "collab"),
              Years_Tracked |-> Len(g)]]

\* ---------------------------------------------------------------- sorting
\* the integer columns that tables are ranked by
IntColumns == {"Total_Citations"}
SortKey(r, col) == IF col \in IntColumns THEN Rat(r[col], 1) ELSE r[col]

\* sort_values(col, ascending): rows in ascending (descending) order of
\* column col; rows that tie keep their order if tiesFirst and take the
\* reverse order if not
SortRows(rows, col, ascending, tiesFirst) ==
  LET Sorted(v) ==
        LET n == Len(v)
            Before(x, y) == IF ascending
                              THEN Less(SortKey(x, col), SortKey(y, col))
                              ELSE Less(SortKey(y, col), SortKey(x, col))
            pos(i) == 1 + Cardinality({j \in 1..n :
                            \/ Before(v[j], v[i])
                            \/ /\ ~Before(v[i], v[j])
                               /\ IF tiesFirst THEN j < i ELSE j > i})
        IN  [k \in 1..n |-> v[CHOOSE i \in 1..n : pos(i) = k]]
  IN  \* the table is evaluated once, then sorted
      CHOOSE s \in {Sorted(v) : v \in {rows}} : TRUE

\* DataFrame.head(n)
HeadRows(rows, n) == SubSeq(rows, 1, IF Len(rows) < n THEN Len(rows) ELSE n)

\* DataFrame.nlargest(n, col): descending, ties in their order of
\* appearance (keep="first")
NLargest(rows, n, col) == HeadRows(SortRows(rows, col, FALSE, TRUE), n)

\* ------------------------------------------------- the story, sections 1-4
\* lines 62-129
Section1 ==
  /\ pc = "section1"
  /\ collab_helpful_pct' =
       Rat(100 * CountTrue(
           [i \in 1..Len(filtered_df) |-> filtered_df[i].Collab_Advantage > 0]),
           Len(filtered_df))
  /\ avg_collab_adv' = MeanOf(filtered_df, "Collab_Advantage")
  /\ rendered' = rendered \cup {"section1"}
  /\ pc' = "section2"
  /\ UNCHANGED <<loaderVars, widgets, exc, df, inputVars, filtered_df,
                 country_metrics, yearly_metrics, excellence_share,
                 excelVars, diveVars, general, ch1Vars, laterVars>>

\* lines 131-282
Section2and3 ==
  /\ pc = "section2"
  /\ country_metrics' = Metrics(filtered_df, "Name")
  /\ yearly_metrics' = Metrics(filtered_df, "year")
  /\ rendered' = rendered \cup {"section2", "section3"}
  /\ pc' = "section4"
  /\ UNCHANGED <<loaderVars, widgets, exc, df, inputVars, filtered_df,
                 collab_helpful_pct, avg_collab_adv, excellence_share,
                 excelVars, diveVars, general, ch1Vars, laterVars>>

\* Lines 284-333.  The two sums of line 304 are numpy integers, whose
\* quotient is nan when both are 0; the two len() of line 311 are Python
\* integers, whose quotient raises when the divisor is 0.
Section4 ==
  /\ pc = "section4"
  /\ high_excellence' =
       SelectSeq(filtered_df, LAMBDA r : r.top1 > ExcellenceCut)
  /\ excellence_share' = NpDiv(100 * SumOf(high_excellence', "docs"),
                               SumOf(filtered_df, "docs"))
  /\ IF Len(filtered_df) = 0
       THEN /\ Raise("ZeroDivisionError")
            /\ UNCHANGED <<rendered, high_excellence_pct>>
       ELSE /\ high_excellence_pct' =
                 Rat(100 * Len(high_excellence'), Len(filtered_df))
            /\ rendered' = rendered \cup {"section4"}
            /\ pc' = "section5"
            /\ UNCHANGED exc
  /\ UNCHANGED <<loaderVars, widgets, df, inputVars, filtered_df,
                 collab_helpful_pct, avg_collab_adv, country_metrics,
                 yearly_metrics, diveVars, general, ch1Vars, laterVars>>

\* lines 335-417: the first country deep dive
Section5 ==
  /\ pc = "section5"
  /\ IF selected_country # AllCountries
       THEN /\ country_data' = OfCountry(filtered_df, selected_country)
            /\ summary' =
                 [shown |-> TRUE,
                  total_publications |-> SumOf(country_data', "docs"),
                  total_citations |-> SumOf(country_data', "cited"),
                  avg_cnci |-> MeanOf(country_data', "cnci"),
                  top1 |-> MeanOf(country_data', "top1"),
                  years_tracked |-> NUnique(country_data', "year")]
            /\ rendered' = rendered \cup {"section5"}
       ELSE UNCHANGED <<country_data, summary, rendered>>
  /\ pc' = "general"
  /\ UNCHANGED <<loaderVars, widgets, exc, df, inputVars, filtered_df,
                 storyVars, excelVars, general, ch1Vars, laterVars>>

\* lines 420-457
GeneralFindings ==
  /\ pc = "general"
  /\ IF Len(filtered_df) = 0
       THEN general' = [NoGeneral EXCEPT !.shown = "warning"]
       ELSE general' =
              [shown |-> "metrics",
               total_records |-> Len(filtered_df),
               unique_countries |-> NUnique(filtered_df, "Name"),
               total_publications |-> SumOf(filtered_df, "docs"),
               total_citations |-> SumOf(filtered_df, "cited"),
               avg_citations_per_doc |->
                 IF SumOf(filtered_df, "docs") > 0
                   THEN NpDiv(SumOf(filtered_df, "cited"),
                              SumOf(filtered_df, "docs"))
                   ELSE Zero,
               avg_cnci |-> MeanOf(filtered_df, "cnci"),
               above_avg_pct |->
                 Rat(100 * CountTrue(
                     [i \in 1..Len(filtered_df) |->
                        filtered_df[i].cnci > WorldAverage]),
                     Len(filtered_df))]
  /\ rendered' = rendered \cup {"general"}
  /\ pc' = "chapter1"
  /\ UNCHANGED <<loaderVars, widgets, exc, df, inputVars, filtered_df,
                 storyVars, excelVars, diveVars, ch1Vars, laterVars>>

\* ------------------------------------------------------------ chapter 1
\* Lines 459-557.  Of the two tables only the ranking is kept: the text
\* formatting of lines 506-509 and 517-518 does not reorder the rows.
Chapter1 ==
  /\ pc = "chapter1"
  /\ country_agg' = CountryAgg(filtered_df)
  /\ top_citations' = NLargest(country_agg', TopN, "Total_Citations")
  /\ top_quality' = NLargest(country_agg', TopN, "Avg_CNCI")
  /\ rendered' = rendered \cup {"chapter1"}
  /\ pc' = "chapter2"
  /\ UNCHANGED <<loaderVars, widgets, exc, df, inputVars, filtered_df,
                 storyVars, excelVars, diveVars, general, laterVars>>

\* ------------------------------------------------------------ chapter 2
\* Series.value_counts(): the count of each value that occurs
ValueCounts(rows, col) ==
  [v \in ColumnSet(rows, col) |-> CountTrue(
      [i \in 1..Len(rows) |-> rows[i][col] = v])]

\* GetCount that takes the only count there is, whatever value it counts
GetCountOfOnly(counts, v) ==
  IF DOMAIN counts = {} THEN 0
  ELSE counts[CHOOSE k \in DOMAIN counts : TRUE]

\* collab_effect.get(v, 0)
GetCount(counts, v) == IF v \in DOMAIN counts THEN counts[v] ELSE 0

\* groupby("Name")["Collab_Advantage"].mean(), before sort_values
CollabByCountry(rows) ==
  LET keys == GroupKeys(rows, "Name")
  IN  [i \in 1..Len(keys) |->
         [Name |-> keys[i],
          Collab_Advantage |->
            MeanOf(Group(rows, "Name", keys[i]), "Collab_Advantage")]]

\* Lines 559-650.  sort_values does not say in which order it leaves rows
\* with equal keys: the model takes either order.
Chapter2 ==
  /\ pc = "chapter2"
  /\ filtered_df' = AddCollabHelps(AddCollabAdvantage(filtered_df))
  /\ collab_effect' = ValueCounts(filtered_df', "Collab_Helps")
  /\ IF Cardinality(DOMAIN collab_effect') = 2
       THEN /\ hurts' = collab_effect'[FALSE]
            /\ helps' = collab_effect'[TRUE]
       ELSE /\ helps' = GetCount(collab_effect', TRUE)
            /\ hurts' = GetCount(collab_effect', FALSE)
  /\ success_pct' = IF Len(filtered_df') > 0
                      THEN Rat(100 * helps', Len(filtered_df'))
                      ELSE Zero
  /\ \E ties \in BOOLEAN :
       collab_by_country' =
         SortRows(CollabByCountry(filtered_df'), "Collab_Advantage", TRUE, ties)
  /\ insight2' =
       [positive_pct |->
          IF Len(filtered_df') > 0
            THEN Rat(100 * CountTrue(
                [i \in 1..Len(filtered_df') |-> filtered_df'[i].Collab_Helps]),
                     Len(filtered_df'))
            ELSE Zero,
        avg_impact |-> MeanOf(filtered_df', "Collab_Advantage")]
  /\ rendered' = rendered \cup {"chapter2"}
  /\ pc' = "chapter3"
  /\ UNCHANGED <<loaderVars, widgets, exc, df, inputVars, storyVars,
                 excelVars, diveVars, general, ch1Vars, ch3Vars, ch4Vars,
                 ch5Vars, dive>>

\* ------------------------------------------------------------ chapter 3
\* lines 663-675
YearlyTrends(rows) ==
  LET keys == GroupKeys(rows, "year")
  IN  [i \in 1..Len(keys) |->
         LET g == Group(rows, "year", keys[i])
         IN  [year |-> keys[i],
              docs |-> SumOf(g, "docs"),
              cited |-> SumOf(g, "cited"),
              cnci |-> Reduced(MeanOf(g, "cnci")),
              top10 |-> Reduced(MeanOf(g, "top10")),
              top1 |-> Reduced(MeanOf(g, "top1"))]]

\* lines 652-780
Chapter3 ==
  /\ pc = "chapter3"
  /\ yearly_trends' = YearlyTrends(filtered_df)
  /\ LET early_years ==
           SelectSeq(yearly_trends', LAMBDA r : r.year <= EarlyYear)
         recent_years ==
           SelectSeq(yearly_trends', LAMBDA r : r.year >= RecentYear)
     IN  IF Len(early_years) > 0 /\ Len(recent_years) > 0
           THEN /\ output_change' =
                     Times100(Minus(Over(MeanOf(recent_years, "docs"),
                                         MeanOf(early_years, "docs")),
                                    Rat(1, 1)))
                /\ quality_change' = Minus(MeanQ(recent_years, "cnci"),
                                           MeanQ(early_years, "cnci"))
           ELSE /\ output_change' = Zero
                /\ quality_change' = Zero
  /\ insight3' =
       [output_word |-> IF GreaterThanZero(output_change')
                          THEN "Increased" ELSE "Decreased",
        quality_word |-> IF GreaterThanZero(quality_change') THEN "improved"
                         ELSE IF LessThanZero(quality_change') THEN "declined"
                         ELSE "remained stable",
        finding_word |-> IF LessThanZero(output_change')
                           THEN "declining" ELSE "growing"]
  /\ rendered' = rendered \cup {"chapter3"}
  /\ pc' = "chapter4"
  /\ UNCHANGED <<loaderVars, widgets, exc, df, inputVars, filtered_df,
                 storyVars, excelVars, diveVars, general, ch1Vars, ch2Vars,
                 ch4Vars, ch5Vars, dive>>

\* ------------------------------------------------------------ chapter 4
\* Excellence sorted ascending
ExcellenceAscending(agg, ties) ==
  HeadRows(SortRows(agg, "Avg_Top1", TRUE, ties), ExcellenceN)

\* sort_values("Avg_Top1", ascending=False).head(15), line 795
Excellence(agg, ties) ==
  HeadRows(SortRows(agg, "Avg_Top1", FALSE, ties), ExcellenceN)

\* Lines 782-862.  The metrics of lines 828-850 are sent before the insight
\* of line 853 is formatted; excellence["Avg_Top1"].iloc[0] raises on an
\* empty table.
Chapter4 ==
  /\ pc = "chapter4"
  /\ \E ties \in BOOLEAN : excellence' = Excellence(country_agg, ties)
  /\ high_excellence_n' = CountTrue(
      [i \in 1..Len(filtered_df) |-> filtered_df[i].top1 > ExcellenceCut])
  /\ metrics4' =
       [avg_top1 |-> MeanOf(filtered_df, "top1"),
        max_top1 |-> MaxOf(filtered_df, "top1"),
        avg_top10 |-> MeanOf(filtered_df, "top10"),
        max_top10 |-> MaxOf(filtered_df, "top10"),
        high_excellence_pct |->
          IF Len(filtered_df) > 0
            THEN Rat(100 * high_excellence_n', Len(filtered_df))
            ELSE Zero]
  /\ IF excellence' = <<>>
       THEN /\ Raise("IndexError")
            /\ rendered' = rendered \cup {"chapter4_metrics"}
            /\ UNCHANGED insight4
       ELSE /\ insight4' =
                 [leaders |-> [i \in 1..Len(HeadRows(excellence', 3)) |->
                                 excellence'[i].Country],
                  high_excellence_pct |-> metrics4'.high_excellence_pct,
                  top |-> excellence'[1].Avg_Top1,
                  average |-> MeanOf(filtered_df, "top1"),
                  multiplier |->
                    IF GreaterThanZero(MeanOf(filtered_df, "top1"))
                      THEN Over(excellence'[1].Avg_Top1,
                                MeanOf(filtered_df, "top1"))
                      ELSE Zero]
            /\ rendered' = rendered \cup {"chapter4_metrics", "chapter4"}
            /\ pc' = "chapter5"
            /\ UNCHANGED exc
  /\ UNCHANGED <<loaderVars, widgets, df, inputVars, filtered_df, storyVars,
                 excelVars, diveVars, general, ch1Vars, ch2Vars, ch3Vars,
                 ch5Vars, dive>>

\* ------------------------------------------------------------ chapter 5
\* ConsistencyRows with ">" for ">="
ConsistencyRowsAboveMin(rows) ==
  LET keys == GroupKeys(rows, "Name")
      all == [i \in 1..Len(keys) |->
                LET g == Group(rows, "Name", keys[i])
                IN  [Country |-> keys[i],
                     Avg_CNCI |-> MeanOf(g, "cnci"),
                     Std_Dev |-> StdOf(g, "cnci"),
                     Records |-> Len(g)]]
  IN  SelectSeq(all, LAMBDA r : r.Records > MinRecords)

\* Lines 877-883: per country the mean, the deviation and the count of
\* CNCI, restricted to the countries with enough records.  The column
\* Consistency_Score of line 884 needs a square root and is left out; no
\* later line reads it.
ConsistencyRows(rows) ==
  LET keys == GroupKeys(rows, "Name")
      all == [i \in 1..Len(keys) |->
                LET g == Group(rows, "Name", keys[i])
                IN  [Country |-> keys[i],
                     Avg_CNCI |-> MeanOf(g, "cnci"),
                     Std_Dev |-> StdOf(g, "cnci"),
                     Records |-> Len(g)]]
  IN  SelectSeq(all, LAMBDA r : r.Records >= MinRecords)

\* Consistency sorted descending
ConsistencyDescending(rows, ties) ==
  SortRows(ConsistencyRows(rows), "Std_Dev", FALSE, ties)

\* line 887: consistency.sort_values("Std_Dev")
Consistency(rows, ties) ==
  SortRows(ConsistencyRows(rows), "Std_Dev", TRUE, ties)

\* lines 864-950
Chapter5 ==
  /\ pc = "chapter5"
  /\ \E ties \in BOOLEAN : consistency' = Consistency(filtered_df, ties)
  /\ consistent_top' = HeadRows(consistency', TopN)
  /\ most_consistent' = IF Len(consistency') > 0
                          THEN consistency'[1].Country
                          ELSE NotAvailable
  /\ rendered' = rendered \cup {"chapter5"}
  /\ pc' = "dive"
  /\ UNCHANGED <<loaderVars, widgets, exc, df, inputVars, filtered_df,
                 storyVars, excelVars, diveVars, general, ch1Vars, ch2Vars,
                 ch3Vars, ch4Vars, dive>>

\* ------------------------------------------------- the second deep dive
\* lines 952-1079
DeepDive ==
  /\ pc = "dive"
  /\ IF selected_country # AllCountries /\ Len(filtered_df) > 0
       THEN /\ country_data' = filtered_df
            /\ dive' =
                 [shown |-> TRUE,
                  total_publications |-> SumOf(country_data', "docs"),
                  total_citations |-> SumOf(country_data', "cited"),
                  avg_cnci |-> MeanOf(country_data', "cnci"),
                  years_tracked |-> NUnique(country_data', "year"),
                  strengths |->
                    {w \in {"cnci", "top1", "collab"} :
                       \/ w = "cnci" /\ Less(MeanOf(df, "cnci"),
                                             MeanOf(country_data', "cnci"))
                       \/ w = "top1" /\ Less(MeanOf(df, "top1"),
                                             MeanOf(country_data', "top1"))
                       \/ w = "collab" /\ GreaterThanZero(
                            MeanOf(country_data', "Collab_Advantage"))},
                  improvements |->
                    {w \in {"cnci", "top1", "collab"} :
                       \/ w = "cnci" /\ Less(MeanOf(country_data', "cnci"),
                                             MeanOf(df, "cnci"))
                       \/ w = "top1" /\ Less(MeanOf(country_data', "top1"),
                                             MeanOf(df, "top1"))
                       \/ w = "collab" /\ LessThanZero(
                            MeanOf(country_data', "Collab_Advantage"))}]
            /\ rendered' = rendered \cup {"dive"}
       ELSE UNCHANGED <<country_data, dive, rendered>>
  /\ pc' = "takeaways"
  /\ UNCHANGED <<loaderVars, widgets, exc, df, inputVars, filtered_df,
                 storyVars, excelVars, summary, general, ch1Vars, ch2Vars,
                 ch3Vars, ch4Vars, ch5Vars>>

\* --------------------------------------------------------- end of the run
\* lines 1081-1127: the fixed closing text; the script ends
Finish ==
  /\ pc = "takeaways"
  /\ rendered' = rendered \cup {"takeaways"}
  /\ pc' = "done"
  /\ UNCHANGED <<loaderVars, widgets, exc, df, inputVars, filtered_df,
                 storyVars, excelVars, diveVars, general, ch1Vars, laterVars>>

\* ------------------------------------------------------------ the browser
\* The user changes one widget: the script is run again from the top with
\* the new session value.  The widgets exist once a run has rendered them.
CanInteract == pc \in {"done", "error"} /\ widgets.touched

SelectCountry ==
  /\ CanInteract
  /\ \E c \in {AllCountries}
               \cup {x \in CountriesOf(cache) : x <= PickCountries} :
       widgets' = [widgets EXCEPT !.selected_country = c]
  /\ FreshRun
  /\ UNCHANGED loaderVars

\* one handle of the year slider is dragged to another year of the data
SlideYearRange ==
  /\ CanInteract
  /\ \E y \in ColumnSet(cache, "year") :
       \/ /\ y <= widgets.year_range[2]
          /\ widgets' = [widgets EXCEPT !.year_range = <<y, @[2]>>]
       \/ /\ y >= widgets.year_range[1]
          /\ widgets' = [widgets EXCEPT !.year_range = <<@[1], y>>]
  /\ FreshRun
  /\ UNCHANGED loaderVars

SlideCnciMin ==
  /\ CanInteract
  /\ \E m \in CnciStops : widgets' = [widgets EXCEPT !.cnci_min = m]
  /\ FreshRun
  /\ UNCHANGED loaderVars

\* The user reloads the app without changing a widget.
Rerun ==
  /\ pc \in {"done", "error"}
  /\ FreshRun
  /\ UNCHANGED <<loaderVars, widgets>>

Next ==
  \/ LoadData
  \/ ReadWidgets
  \/ Filter
  \/ Section1
  \/ Section2and3
  \/ Section4
  \/ Section5
  \/ GeneralFindings
  \/ Chapter1
  \/ Chapter2
  \/ Chapter3
  \/ Chapter4
  \/ Chapter5
  \/ DeepDive
  \/ Finish
  \/ SelectCountry
  \/ SlideYearRange
  \/ SlideCnciMin
  \/ Rerun

Init == InitWith(SmallFiles \cup WideFiles)
Spec == Init /\ [][Next]_vars

\* ----------------------------------------------- what the narrative says
\* Line 118: the sentence "On average, collaboration reduces CNCI by
\* {abs(avg_collab_adv)}" is part of the markdown of section 1 itself, under
\* no condition, and shows the absolute value of the mean.
ReportsReduction == "section1" \in rendered

\* Line 643: "(negative!)" follows the mean advantage in the text of the
\* chapter 2 insight, under no condition.
ReportsNegative == "chapter2" \in rendered

\* ================================================================ claims
\* the script has executed lines 46-60 in this run
FilterDone == pc \notin {"load", "widgets", "filter"} /\ df # <<>>
FilteredEmpty == FilterDone /\ Len(filtered_df) = 0

\* the columns of the file in a row of filtered_df
CsvPart(r) == [k \in CsvColumns |-> r[k]]

\* the predicate of the filter stage on the inputs of this run
Keeps(r) ==
  /\ year_range[1] <= r.year
  /\ r.year <= year_range[2]
  /\ r.cnci >= cnci_min
  /\ (selected_country = AllCountries \/ r.Name = selected_country)

\* C1: the filtered set is exactly the records of the loaded dataset inside
\* the year range, at or above the minimum CNCI and of the selected country
\* (if one is selected), in the order they have in the loaded dataset.
C1_FilterExact ==
  FilterDone =>
    LET kept == {i \in 1..Len(df) : Keeps(df[i])}
    IN  /\ Len(filtered_df) = Cardinality(kept)
        /\ \A i \in kept :
             CsvPart(filtered_df[Cardinality({j \in kept : j <= i})]) = df[i]

C1_Witness ==
  /\ pc = "section1"
  /\ selected_country # AllCountries
  /\ Len(filtered_df) >= 2
  /\ \E i \in 1..Len(df) : df[i].Name = selected_country
                           /\ df[i].year > year_range[2]
  /\ \E i \in 1..Len(df) : df[i].Name = selected_country
                           /\ df[i].cnci < cnci_min
                           /\ df[i].year <= year_range[2]
                           /\ df[i].year >= year_range[1]
  /\ \E i \in 1..Len(df) :
       /\ df[i].Name # selected_country
       /\ Keeps([df[i] EXCEPT !.Name = selected_country])

\* C2: a run whose filters exclude every row raises no exception.
C2_EmptyRunRaisesNothing == FilteredEmpty => exc = "none"

\* C3: with an empty filtered set every summary metric that has been
\* displayed is zero or "N/A", never NaN.
C3_EmptyMetricsNotNaN ==
  FilteredEmpty =>
    /\ "section1" \in rendered =>
         ~IsNaN(collab_helpful_pct) /\ ~IsNaN(avg_collab_adv)
    /\ "section4" \in rendered =>
         ~IsNaN(excellence_share) /\ ~IsNaN(high_excellence_pct)
    /\ "chapter2" \in rendered => ~IsNaN(success_pct)
    /\ "chapter4_metrics" \in rendered =>
         /\ ~IsNaN(metrics4.avg_top1)
         /\ ~IsNaN(metrics4.avg_top10)
         /\ ~IsNaN(metrics4.high_excellence_pct)

\* C4: filtering the filtered set again with the same inputs, and filtering
\* it again by the selected country in the deep dive, returns it unchanged.
C4_FilterIdempotent ==
  /\ FilterDone =>
       FilterRows(filtered_df, year_range, cnci_min, selected_country)
         = filtered_df
  /\ pc = "general" /\ selected_country # AllCountries =>
       country_data = filtered_df

C4_Witness ==
  /\ pc = "general"
  /\ selected_country # AllCountries
  /\ Len(filtered_df) >= 2
  /\ Len(filtered_df) < Len(OfCountry(df, selected_country))
  /\ cnci_min > 0

\* C5: in every row of the filtered set Collab_Advantage is collabCnci minus
\* cnci and Collab_Helps is true exactly when the advantage is above 0; the
\* computation of chapter 2 leaves every Collab_Advantage as it was.
C5_CollabColumns ==
  [][/\ \A i \in 1..Len(filtered_df') :
          /\ filtered_df'[i].Collab_Advantage
               = filtered_df'[i].collab - filtered_df'[i].cnci
          /\ "Collab_Helps" \in DOMAIN filtered_df'[i] =>
               (filtered_df'[i].Collab_Helps
                  <=> filtered_df'[i].Collab_Advantage > 0)
     /\ pc = "chapter2" /\ pc' = "chapter3" =>
          /\ Len(filtered_df') = Len(filtered_df)
          /\ \A i \in 1..Len(filtered_df) :
               /\ "Collab_Helps" \in DOMAIN filtered_df'[i]
               /\ filtered_df'[i].Collab_Advantage
                    = filtered_df[i].Collab_Advantage]_vars

C5_Witness ==
  /\ pc = "chapter3"
  /\ \E i \in 1..Len(filtered_df) :
       filtered_df[i].Collab_Advantage = 0 /\ ~filtered_df[i].Collab_Helps
  /\ \E i \in 1..Len(filtered_df) :
       filtered_df[i].Collab_Advantage > 0 /\ filtered_df[i].Collab_Helps
  /\ \E i \in 1..Len(filtered_df) :
       filtered_df[i].Collab_Advantage < 0 /\ ~filtered_df[i].Collab_Helps

\* the distinct countries of the filtered set
FilteredCountries == ColumnSet(filtered_df, "Name")
RecordsOf(c) == Len(OfCountry(filtered_df, c))

OneRowPerCountry(table, col) ==
  /\ Len(table) = Cardinality(FilteredCountries)
  /\ \A i, j \in 1..Len(table) : table[i][col] = table[j][col] => i = j
  /\ {table[i][col] : i \in 1..Len(table)} = FilteredCountries

\* C6: country_metrics and country_agg each have exactly one row per
\* distinct country of the filtered set, and no other row.
C6_OneRowPerCountry ==
  /\ "section2" \in rendered => OneRowPerCountry(country_metrics, "key")
  /\ "chapter1" \in rendered => OneRowPerCountry(country_agg, "Country")

C6_Witness ==
  /\ pc = "chapter2"
  /\ Len(country_agg) >= 2
  /\ Len(filtered_df) > Len(country_agg)
  /\ Len(country_metrics) < Cardinality(CountriesOf(df))

\* C7: a country is in the consistency table, and can be printed as the
\* most consistent, exactly when it has at least 10 records in the
\* filtered set.
C7_ConsistencyThreshold ==
  "chapter5" \in rendered =>
    /\ \A c \in CountriesOf(df) :
         (\E i \in 1..Len(consistency) : consistency[i].Country = c)
           <=> RecordsOf(c) >= 10
    /\ most_consistent # NotAvailable => RecordsOf(most_consistent) >= 10

C7_Witness ==
  /\ "chapter5" \in rendered
  /\ \E i \in 1..Len(consistency) : RecordsOf(consistency[i].Country) = 10
  /\ \E c \in FilteredCountries :
       /\ RecordsOf(c) = 9
       /\ \A i \in 1..Len(consistency) : consistency[i].Country # c

\* the squared deviation of the CNCI of country c in the filtered set
DeviationOf(c) == StdOf(OfCountry(filtered_df, c), "cnci")
Qualifying == {c \in FilteredCountries : RecordsOf(c) >= 10}

\* C8: the consistency table is in ascending order of deviation, the most
\* consistent country has the least deviation of the qualifying countries,
\* the table of performers holds the (at most 10) least deviations, and
\* "N/A" is printed exactly when no country qualifies.
C8_ConsistencyOrder ==
  "chapter5" \in rendered =>
    /\ \A i, j \in 1..Len(consistency) :
         i < j => ~Less(consistency[j].Std_Dev, consistency[i].Std_Dev)
    /\ most_consistent = NotAvailable <=> Qualifying = {}
    /\ most_consistent # NotAvailable =>
         /\ most_consistent \in Qualifying
         /\ \A c \in Qualifying :
              ~Less(DeviationOf(c), DeviationOf(most_consistent))
    /\ Len(consistent_top) = IF Cardinality(Qualifying) < 10
                               THEN Cardinality(Qualifying) ELSE 10
    /\ \A i \in 1..Len(consistent_top) :
         /\ consistent_top[i].Country \in Qualifying
         /\ \A c \in Qualifying :
              (\A k \in 1..Len(consistent_top) : consistent_top[k].Country # c)
                => ~Less(DeviationOf(c), consistent_top[i].Std_Dev)

C8_Witness ==
  /\ "chapter5" \in rendered
  /\ Len(consistency) > 10
  /\ Len(consistent_top) = 10
  /\ Less(consistency[1].Std_Dev, consistency[10].Std_Dev)
  /\ Less(consistency[10].Std_Dev, consistency[Len(consistency)].Std_Dev)

C8_WitnessNA ==
  /\ "chapter5" \in rendered
  /\ most_consistent = NotAvailable
  /\ Len(filtered_df) >= 10

\* row x is below row y in column col
Below(x, y, col) == Less(SortKey(x, col), SortKey(y, col))

\* a ranking: at most n rows of the table, all of different countries, in
\* descending order of column col, and no row left out is above a row kept
TopRanking(ranking, table, n, col) ==
  /\ Len(ranking) = IF Len(table) < n THEN Len(table) ELSE n
  /\ \A i \in 1..Len(ranking) : \E k \in 1..Len(table) : table[k] = ranking[i]
  /\ \A i, j \in 1..Len(ranking) :
       /\ i < j => ~Below(ranking[i], ranking[j], col)
       /\ i # j => ranking[i].Country # ranking[j].Country
  /\ \A k \in 1..Len(table) :
       (\A i \in 1..Len(ranking) : ranking[i] # table[k])
         => \A i \in 1..Len(ranking) : ~Below(ranking[i], table[k], col)

\* C9: Volume Champions are at most 10 countries in descending total
\* citations, Quality Masters at most 10 in descending average CNCI, the
\* excellence ranking at most 15 in descending average Top 1%; a country
\* left out of a ranking is not above any country kept in it.
C9_TopRankings ==
  /\ "chapter1" \in rendered =>
       /\ TopRanking(top_citations, country_agg, 10, "Total_Citations")
       /\ TopRanking(top_quality, country_agg, 10, "Avg_CNCI")
  /\ "chapter4_metrics" \in rendered =>
       TopRanking(excellence, country_agg, 15, "Avg_Top1")

C9_Witness ==
  /\ "chapter4" \in rendered
  /\ Len(country_agg) > 15
  /\ Len(top_citations) = 10 /\ Len(top_quality) = 10 /\ Len(excellence) = 15
  /\ top_citations[1].Total_Citations > top_citations[10].Total_Citations
  /\ Less(top_quality[10].Avg_CNCI, top_quality[1].Avg_CNCI)
  /\ Less(excellence[15].Avg_Top1, excellence[1].Avg_Top1)
  /\ top_citations[1].Country # top_quality[1].Country

\* C10: over any sequence of runs the file is read at most once, the cached
\* dataset never changes, and every run works on the cached dataset.
C10_CacheOnce ==
  [][/\ csvReads' <= 1
     /\ cache # <<>> => cache' = cache
     /\ df' # <<>> => df' = cache' /\ df' = csv]_vars

C10_Witness ==
  /\ pc = "done"
  /\ csvReads = 1
  /\ widgets.cnci_min # 0
  /\ widgets.selected_country # AllCountries
  /\ df = cache

\* C11: the loaded dataset is read-only: the cached table never changes and
\* keeps the columns of the file, the table of a run is the cached one and
\* stays as loaded until the run ends; the derived columns exist only in
\* the filtered set.
C11_LoadedDatasetReadOnly ==
  [][/\ cache # <<>> => cache' = cache
     /\ df # <<>> /\ df' # <<>> => df' = df
     /\ df' # <<>> => df' = cache'
     /\ \A i \in 1..Len(cache') : DOMAIN cache'[i] = CsvColumns
     /\ \A i \in 1..Len(df') : DOMAIN df'[i] = CsvColumns]_vars

C11_Witness ==
  /\ pc = "done"
  /\ widgets.cnci_min # 0
  /\ Len(filtered_df) >= 2
  /\ Len(filtered_df) < Len(df)
  /\ \A i \in 1..Len(filtered_df) :
       {"Collab_Advantage", "Collab_Helps"} \subseteq DOMAIN filtered_df[i]
  /\ df = csv /\ cache = csv

\* nothing of the script after line 28 has run
NothingAfterLoad ==
  /\ df = <<>>
  /\ rendered = {}
  /\ filtered_df = <<>>
  /\ country_metrics = <<>> /\ yearly_metrics = <<>>
  /\ country_agg = <<>> /\ yearly_trends = <<>> /\ consistency = <<>>
  /\ general = NoGeneral /\ summary = NoSummary /\ dive = NoDive
  /\ most_consistent = NotYet

\* C12: with the file missing the load raises, the run stops there after
\* that one attempt, and no later step of the run executes.
C12_MissingFileStopsRun ==
  [][/\ ~csvExists /\ pc = "load" =>
          pc' = "error" /\ exc' = "FileNotFoundError"
     /\ ~csvExists' =>
          /\ pc' \in {"load", "error"}
          /\ cache' = <<>> /\ csvReads' = 0
          /\ NothingAfterLoad'
     /\ exc' = "FileNotFoundError" => ~csvExists' /\ pc' = "error"]_vars

C12_Witness ==
  /\ ~csvExists
  /\ pc = "error"
  /\ exc = "FileNotFoundError"
  /\ NothingAfterLoad

\* the filtered records whose Collab-CNCI is above their CNCI
Helped ==
  {i \in 1..Len(filtered_df) : filtered_df[i].collab > filtered_df[i].cnci}

\* quotient q is the percentage 100 * k / n
IsPercentOf(q, k, n) == q.d > 0 /\ q.n * n = 100 * k * q.d

\* C13: for a non-empty filtered set the success rate of the pie chart and
\* the percentage of the chapter 2 insight are 100 x (records with a
\* positive advantage) / (filtered records); helps counts those records and
\* hurts all the others, whichever branch of lines 581-587 is taken.
C13_SuccessRate ==
  "chapter2" \in rendered /\ Len(filtered_df) > 0 =>
    /\ helps = Cardinality(Helped)
    /\ hurts = Len(filtered_df) - Cardinality(Helped)
    /\ helps + hurts = Len(filtered_df)
    /\ IsPercentOf(success_pct, Cardinality(Helped), Len(filtered_df))
    /\ IsPercentOf(insight2.positive_pct, Cardinality(Helped),
                   Len(filtered_df))

\* two records, one helped and one not: 50%
C13_Witness ==
  /\ "chapter2" \in rendered
  /\ Len(filtered_df) = 2
  /\ DOMAIN collab_effect = {TRUE, FALSE}
  /\ \E i, j \in 1..2 : /\ filtered_df[i].Collab_Advantage < 0
                        /\ filtered_df[j].Collab_Advantage > 0
  /\ helps = 1 /\ hurts = 1
  /\ success_pct = Rat(100, 2)

\* the branch of lines 584-587: one value only
C13_WitnessOneValue ==
  /\ "chapter2" \in rendered
  /\ Len(filtered_df) >= 2
  /\ DOMAIN collab_effect = {FALSE}
  /\ helps = 0 /\ hurts = Len(filtered_df)

\* C14: grouping by country and grouping by year conserve the totals of the
\* filtered set.  Over the per-country table the sum of Total_Docs is the
\* total publications, the sum of Total_Citations the total citations and
\* the sum of Years_Tracked the number of filtered records (the numbers of
\* General Findings); the publications and citations of the per-year table
\* add up to the same two totals.
C14_TotalsConserved ==
  /\ "chapter1" \in rendered =>
       /\ SumOf(country_agg, "Total_Docs") = SumOf(filtered_df, "docs")
       /\ SumOf(country_agg, "Total_Citations") = SumOf(filtered_df, "cited")
       /\ SumOf(country_agg, "Years_Tracked") = Len(filtered_df)
       /\ general.shown = "metrics"
       /\ SumOf(country_agg, "Total_Docs") = general.total_publications
       /\ SumOf(country_agg, "Total_Citations") = general.total_citations
       /\ SumOf(country_agg, "Years_Tracked") = general.total_records
  /\ "chapter3" \in rendered =>
       /\ SumOf(yearly_trends, "docs") = SumOf(filtered_df, "docs")
       /\ SumOf(yearly_trends, "cited") = SumOf(filtered_df, "cited")
       /\ SumOf(yearly_trends, "docs") = general.total_publications
       /\ SumOf(yearly_trends, "cited") = general.total_citations

\* several countries with several years each, so that groups are sums
C14_Witness ==
  /\ "chapter3" \in rendered
  /\ Len(country_agg) >= 2
  /\ Len(yearly_trends) >= 2
  /\ Len(filtered_df) > Len(country_agg)
  /\ Len(filtered_df) > Len(yearly_trends)
  /\ Len(filtered_df) < Len(df)
  /\ general.total_publications > 0
  /\ general.total_citations > 0

\* the file has one row per (country, year)
OneRowPerCountryYear ==
  \A i, j \in 1..Len(csv) :
    csv[i].Name = csv[j].Name /\ csv[i].year = csv[j].year => i = j

\* the distinct years country c has in the filtered set
YearsOf(c) == ColumnSet(OfCountry(filtered_df, c), "year")

\* C15: with one row per (country, year) in the file, Years_Tracked of each
\* country of the per-country aggregation is the number of distinct years
\* the country has in the filtered set; when one country is selected it is
\* the "Years Tracked" number of both deep-dive sections.
C15_YearsTracked ==
  OneRowPerCountryYear =>
    /\ "chapter1" \in rendered =>
         /\ \A i \in 1..Len(country_agg) :
              country_agg[i].Years_Tracked =
                Cardinality(YearsOf(country_agg[i].Country))
         /\ summary.shown =>
              /\ Len(country_agg) = 1
              /\ country_agg[1].Years_Tracked = summary.years_tracked
    /\ dive.shown =>
         /\ Len(country_agg) = 1
         /\ country_agg[1].Years_Tracked = dive.years_tracked
         /\ dive.years_tracked = Cardinality(YearsOf(selected_country))

\* all countries, with different numbers of years
C15_Witness ==
  /\ "chapter1" \in rendered
  /\ OneRowPerCountryYear
  /\ selected_country = AllCountries
  /\ \E i, j \in 1..Len(country_agg) :
       /\ country_agg[i].Years_Tracked >= 2
       /\ country_agg[j].Years_Tracked # country_agg[i].Years_Tracked

\* one country selected, its years shown by the deep dives
C15_WitnessSelected ==
  /\ pc = "done"
  /\ OneRowPerCountryYear
  /\ summary.shown /\ dive.shown
  /\ dive.years_tracked >= 2
  /\ Len(filtered_df) < Len(OfCountry(df, selected_country))

\* the run has ended: the script ran to its last line or an exception
\* stopped it
RunEnded == pc \in {"done", "error"}

\* C16: a run whose filters exclude every row reaches General Findings and
\* shows the "No data available" warning, so it has done so when it ends;
\* the general metrics are computed only for a non-empty filtered set.
C16_EmptyRunShowsWarning ==
  /\ FilteredEmpty /\ RunEnded => /\ "general" \in rendered
                                  /\ general.shown = "warning"
  /\ general.shown = "metrics" => Len(filtered_df) > 0

\* C17: with a non-empty filtered set the chapter 3 insight says "Increased"
\* exactly when it says "growing" and "Decreased" exactly when it says
\* "declining", whatever output_change is.
C17_TrendWordsAgree ==
  "chapter3" \in rendered /\ Len(filtered_df) > 0 =>
    /\ insight3.output_word = "Increased" <=>
         insight3.finding_word = "growing"
    /\ insight3.output_word = "Decreased" <=>
         insight3.finding_word = "declining"

\* table has at most one row, and it is the row of country c
OnlyCountry(table, col, c) ==
  /\ Len(table) <= 1
  /\ \A i \in 1..Len(table) : table[i][col] = c

\* the rows of a table without the derived columns
CsvRows(rows) == [i \in 1..Len(rows) |-> CsvPart(rows[i])]

\* C18: when a country is selected every record of the filtered set has
\* that country; every per-country table that has been computed has at most
\* one row, the row of the selected country; filtering the filtered set by
\* the country again returns it unchanged; and both deep dives summarise the
\* records the global sections summarise.
C18_SelectedCountryOnly ==
  selected_country # AllCountries /\ FilterDone =>
    /\ \A i \in 1..Len(filtered_df) : filtered_df[i].Name = selected_country
    /\ OnlyCountry(country_metrics, "key", selected_country)
    /\ OnlyCountry(country_agg, "Country", selected_country)
    /\ OnlyCountry(top_citations, "Country", selected_country)
    /\ OnlyCountry(top_quality, "Country", selected_country)
    /\ OnlyCountry(collab_by_country, "Name", selected_country)
    /\ OnlyCountry(excellence, "Country", selected_country)
    /\ OnlyCountry(consistency, "Country", selected_country)
    /\ OnlyCountry(consistent_top, "Country", selected_country)
    /\ OfCountry(filtered_df, selected_country) = filtered_df
    /\ summary.shown \/ dive.shown =>
         CsvRows(country_data) = CsvRows(filtered_df)
    /\ summary.shown /\ general.shown = "metrics" =>
         /\ summary.total_publications = general.total_publications
         /\ summary.total_citations = general.total_citations
         /\ summary.avg_cnci = general.avg_cnci
    /\ dive.shown =>
         /\ dive.total_publications = general.total_publications
         /\ dive.total_citations = general.total_citations
         /\ dive.avg_cnci = general.avg_cnci
         /\ dive.total_publications = country_agg[1].Total_Docs
         /\ dive.total_citations = country_agg[1].Total_Citations

\* a finished run for one country while records of other countries pass
\* the two sliders
C18_Witness ==
  /\ pc = "done"
  /\ selected_country # AllCountries
  /\ summary.shown /\ dive.shown
  /\ Len(filtered_df) >= 2
  /\ Len(country_agg) = 1
  /\ Len(collab_by_country) = 1
  /\ Len(excellence) = 1
  /\ \E i \in 1..Len(df) : /\ df[i].Name # selected_country
                           /\ df[i].year >= year_range[1]
                           /\ df[i].year <= year_range[2]
                           /\ df[i].cnci >= cnci_min

\* the same with enough records for the consistency table to have its row
C18_WitnessConsistency ==
  /\ pc = "done"
  /\ selected_country # AllCountries
  /\ Len(consistency) = 1
  /\ Len(consistent_top) = 1
  /\ Len(df) > Len(filtered_df)

\* C19: when section 1 says that collaboration on average reduces CNCI, and
\* when chapter 2 marks the average collaboration impact as negative, the
\* mean Collab_Advantage of the filtered set is below zero; with a mean of
\* zero or more no reduction is reported.
C19_ReductionOnlyWhenNegative ==
  /\ ReportsReduction => LessThanZero(avg_collab_adv)
  /\ ReportsNegative => LessThanZero(insight2.avg_impact)

====
